---------------------------- MODULE Spec2Model ----------------------------
(***************************************************************************)
(* Model of ns3/scratch/tcp_multi.cc: a measurement harness that runs N    *)
(* TCP flows over a dumbbell topology and samples, every sampleDt, the     *)
(* congestion window, throughput, router queue occupancy and in-flight     *)
(* bytes of every flow into one CSV file per flow.                         *)
(*                                                                         *)
(* Simulated time is counted in ticks of 10 ms, so that Seconds(0.1) is    *)
(* 10 ticks and Seconds(0.11) is 11 ticks.  A double that results from a   *)
(* division is kept as the pair [num, den] of the dividend and divisor.    *)
(* The byte counters are uint64_t; the bounded runs stay far below 2^64,   *)
(* so their sums are exact.                                                *)
(***************************************************************************)
EXTENDS Integers, Sequences, FiniteSets, TLC

(***************************************************************************)
(* Bounds of the model.                                                    *)
(***************************************************************************)
\* the engine delivers at most this many callbacks / queue changes per run
MaxEngineSteps == 2
\* a received chunk carries 1..MaxChunk bytes
MaxChunk == 1
\* the sampler fires while every file holds at most this many lines
MaxFirings == 12

(***************************************************************************)
(* Program constants.                                                      *)
(***************************************************************************)
\* FlowCtx::mssBytes default member initializer
DefaultMssBytes == 1500
\* FlowCtx::lastCwndBytes default member initializer
DefaultCwndBytes == 1500
\* FlowCtx::inflightBytes default member initializer
DefaultInflightBytes == 0
\* apps.Start(Seconds(0.1)), in ticks
AppStartTime == 10
\* Simulator::Schedule(Seconds(0.11), &HookSenderTraces, ...), in ticks
HookDelay == 11

Header == "time,cwnd_pkts,throughput_mbps,buffer_pkts,inflight_pkts"

\* names ResolveTcpTypeId is probed with, besides those of the runs
NameValues == {"Reno", "Cubic", "BBR", "Foo", "reno", "RENO", "cubic", ""}

(***************************************************************************)
(* Inputs: the command line and the engine's environment.                  *)
(***************************************************************************)
\* The --flows string, as the sequence of its fields: the text between two
\* consecutive ',' (a string with k commas has k+1 fields, some maybe empty).
\* Here: "", "Foo", "Reno,Cubic" (the default) and ",BBR".
FlowsValues == { <<"">>, <<"Foo">>, <<"Reno", "Cubic">>, <<"", "BBR">> }
\* what a read past the end of an empty vector may yield as a string
GarbageNames == {"", "Reno"}
MssValues == {1000, 1500}
\* --sampleDt in ticks (0.1 s, 0.4 s, 0.5 s, 1 s)
SampleDtValues == {10, 40, 50, 100}
\* --duration in seconds
DurationValues == {0, 1}
BufferPktsValues == {0, 1}
\* the TypeIds registered in the engine build: one without TcpBbr, one
\* without the default TcpNewReno
RegistryValues ==
  { {"ns3::TcpNewReno", "ns3::TcpCubic"},
    {"ns3::TcpCubic", "ns3::TcpBbr"} }
\* values the engine reports to the congestion-window / in-flight observers
CwndValues == {3000}
InflightValues == {1500}

VARIABLES
  pc,            \* "setup" | "run" | "done" | "fatal" | "crash"
  flows,         \* --flows, as its fields
  mss,           \* --mss
  sampleDt,      \* --sampleDt, in ticks
  duration,      \* --duration, in seconds
  bufferPkts,    \* --bufferPkts
  registry,      \* TypeIds the engine can look up
  algos,         \* main: algos = Split(flows, ',')
  n,             \* main: n = max(algos.size(), 1)
  setupIdx,      \* main: i of the loop that fills ctx
  ctx,           \* main: std::vector<FlowCtx> ctx(n)
  socketType,    \* engine: SocketType set on each sender node
  log,           \* NS_LOG_WARN / NS_FATAL_ERROR lines written so far
  gRxBytes,      \* cumulative received bytes per flow
  gRxBytesPrev,  \* gRxBytes at the last sample
  gQdiscs,       \* engine: packets in each bottleneck queue disc
  events,        \* engine: scheduled events [time, uid, kind, flow]
  nextUid,       \* engine: uid of the next scheduled event
  now,           \* engine: Simulator::Now(), in ticks
  sock,          \* engine: sender i has a socket in its SocketList
  hookRan,       \* HookSenderTraces(i) has executed
  hooked,        \* engine: the observers of flow i are connected to a socket
  sampled,       \* DoSample: cur, prev, delta of its last execution, per flow
  engineSteps    \* engine callbacks delivered so far

vars == << pc, flows, mss, sampleDt, duration, bufferPkts, registry, algos, n,
           setupIdx, ctx, socketType, log, gRxBytes, gRxBytesPrev, gQdiscs,
           events, nextUid, now, sock, hookRan, hooked, sampled, engineSteps >>

params == << flows, mss, sampleDt, duration, bufferPkts, registry, algos, n >>

Max(a, b) == IF a >= b THEN a ELSE b

Flows == 0 .. (n - 1)

(***************************************************************************)
(* Split: std::getline yields the fields in order; the empty ones are      *)
(* dropped.                                                                *)
(***************************************************************************)
NonEmpty(x) == x /= ""

Split(s) == SelectSeq(s, NonEmpty)

(***************************************************************************)
(* struct FlowCtx with its default member initializers; csv is the content *)
(* of the file behind the stream, isOpen whether the stream is open.       *)
(***************************************************************************)
FlowCtx ==
  [ algo          |-> "",
    mssBytes      |-> DefaultMssBytes,
    lastCwndBytes |-> DefaultCwndBytes,
    inflightBytes |-> DefaultInflightBytes,
    csv           |-> << >>,
    isOpen        |-> FALSE ]

(***************************************************************************)
(* ResolveTcpTypeId: the TypeId returned, the warning logged, or the fatal *)
(* error.                                                                  *)
(***************************************************************************)
Ns3NameDefaultCubic(algo) ==
  IF algo = "Reno" THEN "ns3::TcpNewReno"
  ELSE IF algo = "Cubic" THEN "ns3::TcpCubic"
  ELSE IF algo = "BBR" THEN "ns3::TcpBbr"
  ELSE "ns3::TcpCubic"

Ns3Name(algo) ==
  IF algo = "Reno" THEN "ns3::TcpNewReno"
  ELSE IF algo = "Cubic" THEN "ns3::TcpCubic"
  ELSE IF algo = "BBR" THEN "ns3::TcpBbr"
  ELSE "ns3::TcpNewReno"

\* TypeId::LookupByNameFailSafe
LookupByNameFailSafe(name, reg) == name \in reg

ResolveNoFatal(algo, reg) ==
  LET ns3Name == Ns3Name(algo)
  IN  [ tid   |-> IF LookupByNameFailSafe(ns3Name, reg) THEN ns3Name
                  ELSE "ns3::TcpNewReno",
        warn  |-> IF LookupByNameFailSafe(ns3Name, reg) THEN << >>
                  ELSE << [level |-> "warn", name |-> ns3Name] >>,
        fatal |-> FALSE ]

ResolveTcpTypeId(algo, reg) ==
  LET ns3Name == Ns3Name(algo)
      ok1     == LookupByNameFailSafe(ns3Name, reg)
      retry   == ~ok1 /\ ns3Name /= "ns3::TcpNewReno"
      ok2     == IF retry THEN LookupByNameFailSafe("ns3::TcpNewReno", reg)
                 ELSE ok1
  IN  [ tid   |-> IF ok1 THEN ns3Name
                  ELSE IF ok2 THEN "ns3::TcpNewReno" ELSE "none",
        warn  |-> IF retry THEN << [level |-> "warn", name |-> ns3Name] >>
                  ELSE << >>,
        fatal |-> ~ok2 ]

(***************************************************************************)
(* The engine's event list: events run in (time, uid) order, so events of  *)
(* the same time run in the order they were scheduled.                     *)
(***************************************************************************)
Before(e, f) == e.time < f.time \/ (e.time = f.time /\ e.uid < f.uid)

IsHead(e) == e \in events /\ \A f \in events : f = e \/ Before(e, f)

Event(t, uid, kind, flow) == [time |-> t, uid |-> uid, kind |-> kind, flow |-> flow]

\* Seconds(s) for a whole number of seconds, in ticks
Seconds(s) == s * 100

(***************************************************************************)
(* Initial state: the state of main at line 201, once the command line is  *)
(* parsed, the topology built and the applications installed.              *)
(***************************************************************************)
InitParams ==
  /\ flows \in FlowsValues
  /\ mss \in MssValues
  /\ sampleDt \in SampleDtValues
  /\ duration \in DurationValues
  /\ bufferPkts \in BufferPktsValues
  /\ registry \in RegistryValues
  /\ algos = Split(flows)
  /\ n = Max(Len(algos), 1)

InitState ==
  /\ pc = "setup"
  /\ setupIdx = 0
  /\ ctx = [i \in Flows |-> FlowCtx]
  /\ socketType = [i \in Flows |-> "default"]
  /\ log = << >>
  /\ gQdiscs = [i \in Flows |-> 0]
  /\ events = {}
  /\ nextUid = 0
  /\ now = 0
  /\ sock = [i \in Flows |-> FALSE]
  /\ hookRan = [i \in Flows |-> FALSE]
  /\ hooked = [i \in Flows |-> FALSE]
  /\ sampled = [i \in Flows |-> [cur |-> 0, prev |-> 0, delta |-> 0]]
  /\ engineSteps = 0

\* the maps gRxBytes, gRxBytesPrev start empty: operator[] reads 0
Init ==
  /\ InitParams
  /\ InitState
  /\ gRxBytes = [i \in Flows |-> 0]
  /\ gRxBytesPrev = [i \in Flows |-> 0]


(***************************************************************************)
(* main, lines 202-220: one iteration of the loop that fills ctx[i],       *)
(* resolves the flow's TCP type, opens its CSV, writes the header and      *)
(* schedules the hook attachment.  openOk is whether the environment lets  *)
(* the file be opened.                                                     *)
(***************************************************************************)
\* the line written at 217, as a row of the file
HeaderRow == [kind |-> "header", text |-> Header]

OpenCsvNoHeader(c) == [c EXCEPT !.isOpen = TRUE, !.csv = << >>]

\* csv.open(fn, std::ios::out) truncates the file; then the header is written
OpenCsv(c) == [c EXCEPT !.isOpen = TRUE, !.csv = << HeaderRow >>]

FatalLine(msg, i) == [level |-> "fatal", name |-> msg, flow |-> i]

FlowSetupOpenFailureContinues(i, algo, openOk) ==
  LET r    == ResolveTcpTypeId(algo, registry)
      base == [ctx[i] EXCEPT !.algo = algo, !.mssBytes = mss]
  IN  IF r.fatal
      THEN /\ pc' = "fatal"
           /\ ctx' = [ctx EXCEPT ![i] = base]
           /\ log' = log \o r.warn \o << FatalLine("Could not resolve TCP TypeId", i) >>
           /\ UNCHANGED << setupIdx, socketType, events, nextUid >>
      ELSE /\ pc' = pc
           /\ ctx' = [ctx EXCEPT ![i] = IF openOk THEN OpenCsv(base) ELSE base]
           /\ socketType' = [socketType EXCEPT ![i] = r.tid]
           /\ log' = IF openOk THEN log \o r.warn
                               ELSE log \o r.warn \o << FatalLine("Failed to open CSV", i) >>
           /\ events' = events \cup {Event(now + HookDelay, nextUid, "hook", i)}
           /\ nextUid' = nextUid + 1
           /\ setupIdx' = i + 1

FlowSetup(i, algo, openOk) ==
  LET r    == ResolveTcpTypeId(algo, registry)
      base == [ctx[i] EXCEPT !.algo = algo, !.mssBytes = mss]
  IN  IF r.fatal
      THEN /\ pc' = "fatal"
           /\ ctx' = [ctx EXCEPT ![i] = base]
           /\ log' = log \o r.warn \o << FatalLine("Could not resolve TCP TypeId", i) >>
           /\ UNCHANGED << setupIdx, socketType, events, nextUid >>
      ELSE IF ~openOk
      THEN /\ pc' = "fatal"
           /\ ctx' = [ctx EXCEPT ![i] = base]
           /\ socketType' = [socketType EXCEPT ![i] = r.tid]
           /\ log' = log \o r.warn \o << FatalLine("Failed to open CSV", i) >>
           /\ UNCHANGED << setupIdx, events, nextUid >>
      ELSE /\ pc' = pc
           /\ ctx' = [ctx EXCEPT ![i] = OpenCsv(base)]
           /\ socketType' = [socketType EXCEPT ![i] = r.tid]
           /\ log' = log \o r.warn
           /\ events' = events \cup {Event(now + HookDelay, nextUid, "hook", i)}
           /\ nextUid' = nextUid + 1
           /\ setupIdx' = i + 1

\* algos.back() on an empty vector is undefined: the process may crash, or
\* the read may yield any string.
MainFlowLoop ==
  /\ pc = "setup"
  /\ setupIdx < n
  /\ \E openOk \in BOOLEAN :
       IF setupIdx < Len(algos)
       THEN FlowSetup(setupIdx, algos[setupIdx + 1], openOk)
       ELSE IF Len(algos) > 0
       THEN FlowSetup(setupIdx, algos[Len(algos)], openOk)
       ELSE \/ /\ pc' = "crash"
               /\ UNCHANGED << setupIdx, ctx, socketType, log, events, nextUid >>
            \/ \E g \in GarbageNames : FlowSetup(setupIdx, g, openOk)
  /\ UNCHANGED << params, gRxBytes, gRxBytesPrev, gQdiscs, now, sock, hookRan,
                  hooked, sampled, engineSteps >>

(***************************************************************************)
(* main, lines 222-225: schedule the first DoSample and the stop, then     *)
(* Simulator::Run.  On entering Run the nodes initialize and schedule the  *)
(* start of each BulkSend application at Seconds(0.1) (line 197).          *)
(***************************************************************************)
FirstSampleAtZero(uid) == Event(now, uid, "sample", 0)

\* Simulator::Schedule(Seconds(sampleDt), &DoSample, &ctx, sampleDt)
FirstSample(uid) == Event(now + sampleDt, uid, "sample", 0)

\* Simulator::Stop(Seconds(duration))
StopEvent(uid) == Event(now + Seconds(duration), uid, "stop", 0)

AppStartEvents(uid0) ==
  { Event(AppStartTime, uid0 + i, "appstart", i) : i \in Flows }

MainRun ==
  /\ pc = "setup"
  /\ setupIdx = n
  /\ pc' = "run"
  /\ events' = events
        \cup { FirstSample(nextUid), StopEvent(nextUid + 1) }
        \cup AppStartEvents(nextUid + 2)
  /\ nextUid' = nextUid + 2 + n
  /\ UNCHANGED << params, setupIdx, ctx, socketType, log, gRxBytes, gRxBytesPrev,
                  gQdiscs, now, sock, hookRan, hooked, sampled, engineSteps >>

(***************************************************************************)
(* Engine: BulkSendApplication::StartApplication creates the sender's      *)
(* socket; the socket may fail to materialize.                             *)
(***************************************************************************)
AppStart ==
  /\ pc = "run"
  /\ \E e \in events :
       /\ IsHead(e)
       /\ e.kind = "appstart"
       /\ now' = e.time
       /\ events' = events \ {e}
       /\ \E ok \in BOOLEAN : sock' = [sock EXCEPT ![e.flow] = ok]
  /\ UNCHANGED << params, pc, setupIdx, ctx, socketType, log, gRxBytes,
                  gRxBytesPrev, gQdiscs, nextUid, hookRan, hooked, sampled,
                  engineSteps >>

(***************************************************************************)
(* HookSenderTraces: connects CwndTrace and InflightTrace to every socket  *)
(* in the sender's SocketList; with no socket there, nothing is connected. *)
(***************************************************************************)
HookSenderTraces ==
  /\ pc = "run"
  /\ \E e \in events :
       /\ IsHead(e)
       /\ e.kind = "hook"
       /\ now' = e.time
       /\ events' = events \ {e}
       /\ hookRan' = [hookRan EXCEPT ![e.flow] = TRUE]
       /\ hooked' = [hooked EXCEPT ![e.flow] = sock[e.flow]]
  /\ UNCHANGED << params, pc, setupIdx, ctx, socketType, log, gRxBytes,
                  gRxBytesPrev, gQdiscs, nextUid, sock, sampled, engineSteps >>

(***************************************************************************)
(* The observers and the receive callback, invoked by the engine.          *)
(***************************************************************************)
\* writes the new window into the context of every flow
CwndTraceAllFlows(i, newCwnd) ==
  /\ pc = "run"
  /\ hooked[i]
  /\ engineSteps < MaxEngineSteps
  /\ engineSteps' = engineSteps + 1
  /\ ctx' = [j \in Flows |-> [ctx[j] EXCEPT !.lastCwndBytes = newCwnd]]
  /\ UNCHANGED << params, pc, setupIdx, socketType, log, gRxBytes, gRxBytesPrev,
                  gQdiscs, events, nextUid, now, sock, hookRan, hooked, sampled >>

CwndTrace(i, newCwnd) ==
  /\ pc = "run"
  /\ hooked[i]
  /\ engineSteps < MaxEngineSteps
  /\ engineSteps' = engineSteps + 1
  /\ ctx' = [ctx EXCEPT ![i].lastCwndBytes = newCwnd]
  /\ UNCHANGED << params, pc, setupIdx, socketType, log, gRxBytes, gRxBytesPrev,
                  gQdiscs, events, nextUid, now, sock, hookRan, hooked, sampled >>

InflightTrace(i, newVal) ==
  /\ pc = "run"
  /\ hooked[i]
  /\ engineSteps < MaxEngineSteps
  /\ engineSteps' = engineSteps + 1
  /\ ctx' = [ctx EXCEPT ![i].inflightBytes = newVal]
  /\ UNCHANGED << params, pc, setupIdx, socketType, log, gRxBytes, gRxBytesPrev,
                  gQdiscs, events, nextUid, now, sock, hookRan, hooked, sampled >>

\* adds the chunk to the previous counter instead of the current one
RxTraceWrongMap(idx, size) ==
  /\ pc = "run"
  /\ sock[idx]
  /\ engineSteps < MaxEngineSteps
  /\ engineSteps' = engineSteps + 1
  /\ gRxBytesPrev' = [gRxBytesPrev EXCEPT ![idx] = @ + size]
  /\ UNCHANGED << params, pc, setupIdx, ctx, socketType, log, gRxBytes,
                  gQdiscs, events, nextUid, now, sock, hookRan, hooked, sampled >>

\* adds the chunk to the counter of every flow
RxTraceAllFlows(idx, size) ==
  /\ pc = "run"
  /\ sock[idx]
  /\ engineSteps < MaxEngineSteps
  /\ engineSteps' = engineSteps + 1
  /\ gRxBytes' = [j \in Flows |-> gRxBytes[j] + size]
  /\ UNCHANGED << params, pc, setupIdx, ctx, socketType, log, gRxBytesPrev,
                  gQdiscs, events, nextUid, now, sock, hookRan, hooked, sampled >>

RxTrace(idx, size) ==
  /\ pc = "run"
  /\ sock[idx]
  /\ engineSteps < MaxEngineSteps
  /\ engineSteps' = engineSteps + 1
  /\ gRxBytes' = [gRxBytes EXCEPT ![idx] = @ + size]
  /\ UNCHANGED << params, pc, setupIdx, ctx, socketType, log, gRxBytesPrev,
                  gQdiscs, events, nextUid, now, sock, hookRan, hooked, sampled >>

(***************************************************************************)
(* Engine: the queue disc at the router's egress of flow i takes a packet  *)
(* while it holds fewer than MaxSize = bufferPkts, or releases one.        *)
(***************************************************************************)
QueueDiscChange(i) ==
  /\ pc = "run"
  /\ sock[i]
  /\ engineSteps < MaxEngineSteps
  /\ engineSteps' = engineSteps + 1
  /\ \/ /\ gQdiscs[i] < bufferPkts
        /\ gQdiscs' = [gQdiscs EXCEPT ![i] = @ + 1]
     \/ /\ gQdiscs[i] > 0
        /\ gQdiscs' = [gQdiscs EXCEPT ![i] = @ - 1]
  /\ UNCHANGED << params, pc, setupIdx, ctx, socketType, log, gRxBytes,
                  gRxBytesPrev, events, nextUid, now, sock, hookRan, hooked,
                  sampled >>

(***************************************************************************)
(* DoSample.                                                               *)
(***************************************************************************)
\* reads the first queue disc only
RouterPktsFirstOnly(q, i) == IF i \notin DOMAIN q THEN 0 ELSE q[i]

RECURSIVE RouterPkts(_, _)
\* the loop over gQdiscs, lines 50-53, from index i on
RouterPkts(q, i) ==
  IF i \notin DOMAIN q THEN 0 ELSE q[i] + RouterPkts(q, i + 1)

DeltaNoClamp(cur, prev) == cur - prev

\* uint64_t delta = (cur >= prev) ? (cur - prev) : 0
Delta(cur, prev) == IF cur >= prev THEN cur - prev ELSE 0

\* (delta * 8.0) / (sampleDt * 1e6), sampleDt in ticks of 10 ms
ThrMbps(delta, dt) == [num |-> delta * 8, den |-> dt * 10000]

PktsNoDivide(bytes, mssBytes) == [num |-> bytes, den |-> 1]

\* bytes / std::max(1.0, mssBytes)
Pkts(bytes, mssBytes) == [num |-> bytes, den |-> Max(1, mssBytes)]

Row(t, c, cur, prev, routerPkts) ==
  [ kind |-> "data",
    time |-> t,
    cwnd |-> Pkts(c.lastCwndBytes, c.mssBytes),
    thr  |-> ThrMbps(Delta(cur, prev), sampleDt),
    buf  |-> routerPkts,
    infl |-> Pkts(c.inflightBytes, c.mssBytes) ]

\* rewrites the file with the header and the new row
Append2CsvOverwrite(c, row) ==
  IF c.isOpen THEN [c EXCEPT !.csv = << c.csv[1], row >>] ELSE c

\* a write to a stream that is not open is lost
Append2Csv(c, row) == IF c.isOpen THEN [c EXCEPT !.csv = Append(@, row)] ELSE c

RescheduleTwicePeriod(t, uid) == { Event(t + 2 * sampleDt, uid, "sample", 0) }

\* Simulator::Schedule(Seconds(sampleDt), &DoSample, pctx, sampleDt)
Reschedule(t, uid) == { Event(t + sampleDt, uid, "sample", 0) }

\* leaves the previous counter as it was
PrevUpdateKept(cur, prev) == prev

\* gRxBytesPrev[i] = cur
PrevUpdate(cur, prev) == cur

DoSample ==
  /\ pc = "run"
  /\ \E e \in events :
       /\ IsHead(e)
       /\ e.kind = "sample"
       /\ \A i \in Flows : Len(ctx[i].csv) <= MaxFirings
       /\ now' = e.time
       /\ LET routerPkts == RouterPkts(gQdiscs, 0)
          IN  /\ ctx' = [i \in Flows |->
                           Append2Csv(ctx[i], Row(e.time, ctx[i], gRxBytes[i],
                                                  gRxBytesPrev[i], routerPkts))]
              /\ sampled' = [i \in Flows |->
                               [ cur   |-> gRxBytes[i],
                                 prev  |-> gRxBytesPrev[i],
                                 delta |-> Delta(gRxBytes[i], gRxBytesPrev[i]) ]]
       /\ gRxBytesPrev' = [i \in Flows |->
                              PrevUpdate(gRxBytes[i], gRxBytesPrev[i])]
       /\ events' = (events \ {e}) \cup Reschedule(e.time, nextUid)
       /\ nextUid' = nextUid + 1
  /\ UNCHANGED << params, pc, setupIdx, socketType, log, gRxBytes, gQdiscs,
                  sock, hookRan, hooked, engineSteps >>

(***************************************************************************)
(* The stop event ends Simulator::Run; main then destroys the simulator    *)
(* (dropping the events still scheduled) and closes the CSV streams,       *)
(* lines 224-230.                                                          *)
(***************************************************************************)
MainStop ==
  /\ pc = "run"
  /\ \E e \in events :
       /\ IsHead(e)
       /\ e.kind = "stop"
       /\ now' = e.time
  /\ pc' = "done"
  /\ events' = {}
  /\ ctx' = [i \in Flows |-> [ctx[i] EXCEPT !.isOpen = FALSE]]
  /\ UNCHANGED << params, setupIdx, socketType, log, gRxBytes, gRxBytesPrev,
                  gQdiscs, nextUid, sock, hookRan, hooked, sampled, engineSteps >>

Engine ==
  \/ \E i \in Flows, v \in CwndValues : CwndTrace(i, v)
  \/ \E i \in Flows, v \in InflightValues : InflightTrace(i, v)
  \/ \E i \in Flows, size \in 1 .. MaxChunk : RxTrace(i, size)
  \/ \E i \in Flows : QueueDiscChange(i)

Next ==
  \/ MainFlowLoop
  \/ MainRun
  \/ AppStart
  \/ HookSenderTraces
  \/ DoSample
  \/ MainStop
  \/ Engine

Spec == Init /\ [][Next]_vars

(***************************************************************************)
(* The sampler under a counter anomaly: the run starts with arbitrary      *)
(* cumulative counters, so that DoSample may read current < previous (a    *)
(* counter reset or out-of-order delivery by the engine).                  *)
(***************************************************************************)
InitAnomaly ==
  /\ flows \in { <<"Foo">>, <<"Reno", "Cubic">> }
  /\ mss = 1500
  /\ sampleDt \in {40, 50}
  /\ duration = 1
  /\ bufferPkts = 1
  /\ registry = {"ns3::TcpNewReno", "ns3::TcpCubic"}
  /\ algos = Split(flows)
  /\ n = Max(Len(algos), 1)
  /\ InitState
  /\ gRxBytes \in [Flows -> 0 .. MaxChunk]
  /\ gRxBytesPrev \in [Flows -> 0 .. MaxChunk]

SpecAnomaly == InitAnomaly /\ [][Next]_vars

(***************************************************************************)
(* The runs with --sampleDt=0.  main parses sampleDt as a double (lines    *)
(* 111, 122) and passes it to Seconds() unvalidated (lines 72, 222), and   *)
(* the engine takes a delay of zero: the event is scheduled at the current *)
(* time, after the events already there.  A positive period is kept for    *)
(* comparison.                                                             *)
(***************************************************************************)
InitZeroDt ==
  /\ flows = << "Foo" >>
  /\ mss = 1500
  /\ sampleDt \in {0, 50}
  /\ duration \in DurationValues
  /\ bufferPkts = 1
  /\ registry = {"ns3::TcpNewReno", "ns3::TcpCubic"}
  /\ algos = Split(flows)
  /\ n = Max(Len(algos), 1)
  /\ InitState
  /\ gRxBytes = [i \in Flows |-> 0]
  /\ gRxBytesPrev = [i \in Flows |-> 0]

SpecZeroDt == InitZeroDt /\ [][Next]_vars


(***************************************************************************)
(* Properties.                                                             *)
(***************************************************************************)
Recognized == {"Reno", "Cubic", "BBR"}

\* the number of data rows in flow i's file
NumRows(i) == IF ctx[i].csv = << >> THEN 0 ELSE Len(ctx[i].csv) - 1

\* the k-th data row of flow i's file
DataRow(i, k) == ctx[i].csv[k + 1]

LastRow(i) == ctx[i].csv[Len(ctx[i].csv)]

\* the flows whose loop iteration (lines 202-220) has completed
SetUp == { i \in Flows : i < setupIdx }

ResolveFatal ==
  /\ pc = "fatal"
  /\ log /= << >>
  /\ log[Len(log)].level = "fatal"
  /\ log[Len(log)].name = "Could not resolve TCP TypeId"

PastStopBoundary(D, dt) == { k \in 1 .. (D \div dt) : k * dt = D /\ k > 1 }

ExpectedRows(D, dt) == (D \div dt) - Cardinality(PastStopBoundary(D, dt))

\* C2: when the run ends, a run with N >= 1 flow names has produced exactly
\* N sinks, each holding the header followed by floor(D/dt) data rows less
\* the firings past the stop boundary.
C2_RowCountAtEnd ==
  pc = "done" =>
    /\ Cardinality({ i \in Flows : ctx[i].csv /= << >> }) = n
    /\ Len(algos) >= 1 => n = Len(algos)
    /\ \A i \in Flows :
         /\ ctx[i].csv[1] = HeaderRow
         /\ NumRows(i) = ExpectedRows(Seconds(duration), sampleDt)

\* the default flows with D/dt = 10: two sinks of 9 data rows each
C2_Witness ==
  /\ pc = "done"
  /\ flows = << "Reno", "Cubic" >>
  /\ sampleDt = 10 /\ duration = 1
  /\ \A i \in Flows : NumRows(i) = 9
  /\ n = 2

SampleEvents == { e \in events : e.kind = "sample" }

\* C3: the k-th executed firing of the sampler happens at k * sampleDt, and
\* during the run exactly one sampler event is pending, one period after the
\* last firing; never more than one.
C3_SamplerPeriod ==
  /\ Cardinality(SampleEvents) <= 1
  /\ pc = "run" => Cardinality(SampleEvents) = 1
  /\ \A i \in Flows :
       /\ \A k \in 1 .. NumRows(i) : DataRow(i, k).time = k * sampleDt
       /\ \A e \in SampleEvents : e.time = (NumRows(i) + 1) * sampleDt

\* two firings have executed and the third is pending
C3_Witness ==
  /\ pc = "run"
  /\ \E i \in Flows : NumRows(i) = 2
  /\ \E e \in SampleEvents : e.time = 3 * sampleDt

\* C4: in every sink the header is the first row and occurs once; it is
\* there as soon as the flow's setup iteration completes, and data rows
\* appear only once the simulation runs.
C4_HeaderFirstOnce ==
  \A i \in Flows :
    /\ ctx[i].csv /= << >> =>
         /\ ctx[i].csv[1] = HeaderRow
         /\ \A k \in 2 .. Len(ctx[i].csv) : ctx[i].csv[k].kind = "data"
    /\ (i \in SetUp) => ctx[i].csv /= << >>
    /\ pc \in {"setup", "fatal", "crash"} => NumRows(i) = 0

\* both sinks of a two-flow run hold the header and data rows
C4_Witness ==
  /\ n = 2
  /\ \A i \in Flows : NumRows(i) >= 2 /\ ctx[i].csv[1] = HeaderRow

\* C5: an unrecognized name resolves as "Reno" does; with the default
\* implementation registered it resolves to it without failing; a set-up
\* flow with an unrecognized name runs the default implementation.  (The
\* registry never changes, so the resolver is probed in the setup states.)
C5_FallbackToReno ==
  /\ pc = "setup" => \A name \in NameValues \ Recognized :
       LET r == ResolveTcpTypeId(name, registry)
           d == ResolveTcpTypeId("Reno", registry)
       IN  /\ r.tid = d.tid
           /\ r.fatal = d.fatal
           /\ "ns3::TcpNewReno" \in registry =>
                ~r.fatal /\ r.tid = "ns3::TcpNewReno"
  /\ \A i \in SetUp :
       ctx[i].algo \notin Recognized =>
         socketType[i] = ResolveTcpTypeId("Reno", registry).tid
  /\ (ResolveFatal /\ ctx[setupIdx].algo \notin Recognized) =>
       "ns3::TcpNewReno" \notin registry
  /\ (pc = "done" /\ flows = << "Foo" >>) =>
       n = 1 /\ ctx[0].csv /= << >> /\ socketType[0] = "ns3::TcpNewReno"

\* the run with flows = "Foo" has completed with its one sink written
C5_Witness ==
  /\ pc = "done"
  /\ flows = << "Foo" >>
  /\ socketType[0] = "ns3::TcpNewReno"
  /\ NumRows(0) >= 1

\* C6 (as claimed): whenever a flow with an unrecognized name has been
\* resolved to the default, a warning has been logged.
C6_FallbackIsLogged ==
  (\E i \in SetUp : ctx[i].algo \notin Recognized) =>
    \E k \in 1 .. Len(log) : log[k].level = "warn"

NeedsDefault(name, reg) ==
  Ns3Name(name) = "ns3::TcpNewReno" \/ Ns3Name(name) \notin reg

C8_NoSocketPlaceholders ==
  \A i \in Flows :
    ~sock[i] =>
      /\ \A k \in 1 .. NumRows(i) :
           /\ DataRow(i, k).cwnd.num * mss = 1500 * DataRow(i, k).cwnd.den
           /\ DataRow(i, k).infl.num = 0
           /\ DataRow(i, k).thr.num = 0
      /\ \A j \in Flows : NumRows(j) = NumRows(i)
      /\ pc = "done" => NumRows(i) = ExpectedRows(Seconds(duration), sampleDt)

\* a finished two-flow run with mss = 1000 where flow i never had a socket
\* and the other flow received data
C8_Witness ==
  /\ pc = "done"
  /\ mss = 1000
  /\ \E i, j \in Flows :
       /\ ~sock[i] /\ sock[j]
       /\ NumRows(i) >= 2
       /\ gRxBytes[j] > 0
       /\ \E k \in 1 .. NumRows(j) : DataRow(j, k).thr.num > 0

\* C9 (as claimed): once a flow is set up, and until its observers are
\* connected, lastCwndBytes equals the flow's mssBytes and inflightBytes is 0.
C9_CwndInitIsOneMss ==
  \A i \in SetUp :
    ~hooked[i] =>
      /\ ctx[i].lastCwndBytes = ctx[i].mssBytes
      /\ ctx[i].inflightBytes = 0

\* C10 (as claimed): no firing of the sampler has written a row of flow i
\* before HookSenderTraces has executed for flow i.
C10_HookBeforeFirstSample ==
  \A i \in Flows : NumRows(i) >= 1 => hookRan[i]

\* C11 (as claimed): for every sampling period the harness accepts the run
\* reaches the stop time: once the sampler has fired, its pending event is
\* strictly later than the current time or ordered after the stop event, so
\* that only finitely many firings precede the stop; no row is written for
\* a time past the stop time; and when the run has stopped no event is left
\* and every sink is closed.
C11_RunReachesStop ==
  /\ pc = "run" =>
       \A i \in Flows : NumRows(i) >= 1 =>
         \A e \in SampleEvents :
           \/ e.time > now
           \/ \E st \in events : st.kind = "stop" /\ Before(st, e)
  /\ \A i \in Flows : \A k \in 1 .. NumRows(i) :
       DataRow(i, k).time <= Seconds(duration)
  /\ pc = "done" =>
       /\ events = {}
       /\ now = Seconds(duration)
       /\ \A i \in Flows : ~ctx[i].isOpen

OpenFailed ==
  \E k \in 1 .. Len(log) : log[k].name = "Failed to open CSV"

\* C12: when the file of a flow could not be opened the program has aborted
\* in setup, at that flow: the clock has not started, no hook has executed
\* and no observer is connected, the sampler was never scheduled, no sink
\* holds a data row, the failed file was not opened by a retry, and no later
\* flow was set up.
C12_OpenFailureAborts ==
  OpenFailed =>
    /\ pc = "fatal"
    /\ now = 0
    /\ \A e \in events : e.kind = "hook"
    /\ \A i \in Flows :
         /\ ~hookRan[i] /\ ~hooked[i]
         /\ NumRows(i) = 0
         /\ i >= setupIdx => ctx[i].csv = << >> /\ ~ctx[i].isOpen
    /\ setupIdx < n
    /\ Cardinality({ k \in 1 .. Len(log) : log[k].level = "fatal" }) = 1
    /\ log[Len(log)] = FatalLine("Failed to open CSV", setupIdx)

\* the second file of a two-flow run failed to open after the first was
\* written its header
C12_Witness ==
  /\ OpenFailed
  /\ pc = "fatal"
  /\ n = 2 /\ setupIdx = 1
  /\ ctx[0].csv = << HeaderRow >>
  /\ ctx[1].csv = << >>

\* C13: provided that the engine's queue disc never holds more packets than
\* the MaxSize it was configured with (QueueDiscChange), the aggregate
\* written in a row never exceeds N * bufferPkts; with bufferPkts = 0 it is
\* 0 in every row of every flow, whatever the throughput of the row.
C13_ZeroBufferZeroAggregate ==
  \A i \in Flows : \A k \in 1 .. NumRows(i) :
    /\ DataRow(i, k).buf >= 0
    /\ DataRow(i, k).buf <= n * bufferPkts
    /\ bufferPkts = 0 => DataRow(i, k).buf = 0

\* with bufferPkts = 0 a row reports a positive throughput and an aggregate
\* of 0
C13_Witness ==
  /\ bufferPkts = 0
  /\ \E i \in Flows : \E k \in 1 .. NumRows(i) :
       DataRow(i, k).thr.num > 0 /\ DataRow(i, k).buf = 0

\* C14: in every reachable state the current counter of every flow is at
\* least its previous counter, and no firing of the sampler has read
\* current < previous (the clamp of Delta was not taken).
C14_CurrentAtLeastPrevious ==
  \A i \in Flows :
    /\ gRxBytes[i] >= gRxBytesPrev[i]
    /\ sampled[i].cur >= sampled[i].prev
    /\ sampled[i].delta = sampled[i].cur - sampled[i].prev

\* a firing has read current > previous, and more bytes have arrived since
C14_Witness ==
  \E i \in Flows :
    /\ NumRows(i) >= 1
    /\ sampled[i].cur > sampled[i].prev
    /\ gRxBytes[i] > gRxBytesPrev[i]
    /\ gRxBytesPrev[i] > 0

\* the flows whose current counter changes in the step
RxChanged == { i \in Flows : gRxBytes'[i] /= gRxBytes[i] }

\* C15: a step that changes the current counter of flow i increases it by
\* the length of one received chunk and leaves the current counters of the
\* other flows, all previous counters, every flow context and every sink as
\* they were; no step decreases a current counter.
C15_RxTraceFrame ==
  [][ \A i \in Flows :
        /\ gRxBytes'[i] >= gRxBytes[i]
        /\ i \in RxChanged =>
             /\ gRxBytes'[i] - gRxBytes[i] \in 1 .. MaxChunk
             /\ RxChanged = {i}
             /\ sock[i]
             /\ UNCHANGED << gRxBytesPrev, ctx, sampled, gQdiscs, events, now >>
    ]_vars

\* in a two-flow run, flow 1 has received a chunk and flow 0 none
C15_Witness ==
  /\ n = 2
  /\ gRxBytes[1] = 1
  /\ gRxBytes[0] = 0
  /\ gRxBytesPrev[1] = 0

RECURSIVE SumOver(_, _)
\* the sum of f over the set S of its arguments
SumOver(f, S) ==
  IF S = {} THEN 0
  ELSE LET x == CHOOSE y \in S : TRUE IN f[x] + SumOver(f, S \ {x})

\* the step is a firing of the sampler: some sink gets a row
Firing == \E i \in Flows : NumRows(i)' > NumRows(i) /\ NumRows(i)' >= 1

\* C16: the row appended by a firing carries, in every sink, the sum of the
\* packet counts of all N queues at that instant; rows of the same firing
\* carry the same value in all sinks; and the firing changes no queue.
C16_AggregateBuffer ==
  [][ Firing =>
        /\ \A i \in Flows :
             /\ NumRows(i)' = NumRows(i) + 1
             /\ LastRow(i)'.buf = SumOver(gQdiscs, Flows)
             /\ \A j \in Flows : LastRow(j)'.buf = LastRow(i)'.buf
        /\ gQdiscs' = gQdiscs
    ]_vars

\* in a two-flow run only the queue of flow 1 holds a packet, and the last
\* row of both sinks reports 1
C16_Witness ==
  /\ n = 2
  /\ gQdiscs[0] = 0 /\ gQdiscs[1] = 1
  /\ \A i \in Flows : NumRows(i) >= 1 /\ LastRow(i).buf = 1

\* C17: a step that changes lastCwndBytes of flow i changes nothing else in
\* any flow context, and a step that changes inflightBytes of flow i
\* likewise; such a step happens only with the observers of flow i connected
\* and writes no sink and no byte counter; and a firing of the sampler leaves
\* algo, mssBytes, lastCwndBytes and inflightBytes of every flow unchanged.
C17_ObserverFrame ==
  [][ \A i \in Flows :
        /\ ctx'[i].lastCwndBytes /= ctx[i].lastCwndBytes =>
             /\ hooked[i]
             /\ ctx' = [ctx EXCEPT ![i].lastCwndBytes = ctx'[i].lastCwndBytes]
             /\ UNCHANGED << gRxBytes, gRxBytesPrev >>
        /\ ctx'[i].inflightBytes /= ctx[i].inflightBytes =>
             /\ hooked[i]
             /\ ctx' = [ctx EXCEPT ![i].inflightBytes = ctx'[i].inflightBytes]
             /\ UNCHANGED << gRxBytes, gRxBytesPrev >>
        /\ Firing =>
             /\ ctx'[i].algo = ctx[i].algo
             /\ ctx'[i].mssBytes = ctx[i].mssBytes
             /\ ctx'[i].lastCwndBytes = ctx[i].lastCwndBytes
             /\ ctx'[i].inflightBytes = ctx[i].inflightBytes
             /\ ctx'[i].isOpen = ctx[i].isOpen
    ]_vars

\* in a two-flow run the window of flow 0 and the bytes in flight of flow 1
\* were reported, the other fields are as constructed, and a row was
\* written since
C17_Witness ==
  /\ n = 2
  /\ ctx[0].lastCwndBytes = 3000 /\ ctx[0].inflightBytes = 0
  /\ ctx[1].lastCwndBytes = 1500 /\ ctx[1].inflightBytes = 1500
  /\ \A i \in Flows : NumRows(i) >= 1
  /\ LastRow(0).cwnd.num = 3000
  /\ LastRow(1).infl.num = 1500

RECURSIVE SumDeltas(_, _)
\* the bytes accounted for by the first k data rows of flow i, times 8
SumDeltas(i, k) ==
  IF k = 0 THEN 0 ELSE DataRow(i, k).thr.num + SumDeltas(i, k - 1)

\* C19: for every flow the deltas of all the rows written so far add up to
\* the previous counter, which after a firing is the current counter the
\* firing read; every byte is thus counted in at most one row, and the
\* bytes received since the last firing, current - previous, are in no row.
C19_ByteConservation ==
  \A i \in Flows :
    /\ SumDeltas(i, NumRows(i)) = 8 * gRxBytesPrev[i]
    /\ NumRows(i) >= 1 => gRxBytesPrev[i] = sampled[i].cur
    /\ NumRows(i) = 0 => gRxBytesPrev[i] = 0
    /\ gRxBytesPrev[i] <= gRxBytes[i]

\* a finished run where flow i received one byte that a row accounts for
\* and one byte after the last firing
C19_Witness ==
  /\ pc = "done"
  /\ \E i \in Flows :
       /\ gRxBytes[i] = 2
       /\ gRxBytesPrev[i] = 1
       /\ SumDeltas(i, NumRows(i)) = 8

\* the flows whose name the setup loop has read (line 203)
Named == { i \in Flows : i < setupIdx \/ (pc = "fatal" /\ i = setupIdx) }

\* C20 (as claimed): for every value of flows, the empty string and strings
\* of commas included, setup works on N = max(1, number of non-empty names)
\* flows, each with its own queue, context and counters, and the name of
\* every flow it has named is the i-th name of the parsed list; setup never
\* reads an element of an empty list and does not crash.
C20_EveryFlowNamedFromList ==
  /\ n = Max(1, Len(algos))
  /\ DOMAIN ctx = Flows /\ DOMAIN gQdiscs = Flows
  /\ DOMAIN gRxBytes = Flows /\ DOMAIN gRxBytesPrev = Flows
  /\ pc /= "crash"
  /\ \A i \in Named : i < Len(algos) /\ ctx[i].algo = algos[i + 1]
=============================================================================
